---- MODULE Spec2Model ----
(***************************************************************************)
(* Model of hf_downloader.py: download_repo, the per-file skip / resume /  *)
(* restart decision, the streaming transfer and the bounded retry loop.    *)
(* A file's bytes are modelled by their 1-based position in the remote     *)
(* file, so that "is a prefix of the remote content" can be checked.       *)
(***************************************************************************)
EXTENDS Integers, Sequences, FiniteSets, TLC

\* ---- bounds of the model ----
NumFiles == 2       \* number of files in the listing
MaxSize == 3        \* largest remote file size, in bytes
MaxRuns == 2        \* number of consecutive runs of download_repo
MaxPats == 2        \* longest allow_patterns / ignore_patterns list
chunk_size == 1     \* bytes per chunk of iter_content (the chunk_size argument)

\* ---- program constants ----
max_retries == 3
None == -1          \* Python None for an Optional[int] size (sizes are >= 0)

VARIABLES
    files,          \* the listing: sequence of FileInfo [rfilename, size]
    allow_patterns, \* argument allow_patterns: [given, pats], given = FALSE
                    \* for None
    ignore_patterns,\* argument ignore_patterns, likewise
    scan,           \* listing entries the selection loop (line 99) has seen
    selected,       \* local selected: the files that passed the filter
    remote,         \* remote[i]: true byte length of file i on the server
    accept_ranges,  \* the server serves byte ranges (206); else it answers
                    \* a Range request with the whole file (200)
    disk,           \* disk[i]: destination file [exists, data]
    run,            \* number of the current run of download_repo
    pc,             \* position in download_repo
    idx,            \* index in selected of the file of the current iteration
    remote_size,    \* local remote_size
    stat_bytes,     \* dest.stat().st_size as read at line 137
    exist_bytes,    \* local exist_bytes
    range_headers,  \* Range header of range_headers: <<>> or <<start, end>>
    retry_count,    \* local retry_count
    total_bar,      \* aggregate progress bar [total, n]
    file_bar,       \* per-file progress bar [total, n]
    mode,           \* mode of the last open(dest, mode)
    body,           \* bytes of the response not yet yielded by iter_content
    req,            \* Range header carried by the last GET sent
    gets,           \* GET requests sent for the current file
    errors,         \* "[ERROR] Max retries exceeded" lines for the current file
    outcome,        \* r.status_code of the last attempt ("200", "206",
                    \* "416", "http" for any other), "exc" if it raised
    status,         \* how the current file's iteration ended
    all_ok,         \* no file of this run gave up so far
    prev_ok,        \* the previous run ended with no file given up
    result          \* return value of download_repo

vars == <<files, allow_patterns, ignore_patterns, scan, selected, remote, accept_ranges, disk, run, pc, idx, remote_size, stat_bytes,
          exist_bytes, range_headers, retry_count, total_bar, file_bar, mode,
          body, req, gets, errors, outcome, status, all_ok, prev_ok,
          result>>

NoRange == <<>>

\* ---- pure helpers ----

\* bytes first..last (1-based, inclusive) of a remote file of n bytes
Bytes(first, last) == [j \in 1..(last - first + 1) |-> first + j - 1]

Content(i) == Bytes(1, remote[i])

RECURSIVE SumSizes(_, _)
SumSizes(fs, k) ==
    IF k = 0 THEN 0
    ELSE SumSizes(fs, k - 1) + (IF fs[k].size # None THEN fs[k].size ELSE 0)

\* ---- the pattern filter ----

\* fnmatch patterns are sequences of these elements
Lit(c) == [kind |-> "lit", chars |-> {c}]
Star == [kind |-> "*", chars |-> {}]
AnyChar == [kind |-> "?", chars |-> {}]
Class(cs) == [kind |-> "[]", chars |-> cs]

\* fnmatch.fnmatch(name, pat) on a case-sensitive file system: "*" matches
\* any run of characters ("/" included), "?" one character, "[...]" one
\* character of the class, anything else itself
RECURSIVE fnmatch(_, _)
fnmatch(name, pat) ==
    IF pat = <<>> THEN name = <<>>
    ELSE IF Head(pat).kind = "*"
    THEN \/ fnmatch(name, Tail(pat))
         \/ (name # <<>> /\ fnmatch(Tail(name), pat))
    ELSE /\ name # <<>>
         /\ \/ Head(pat).kind = "?"
            \/ Head(name) \in Head(pat).chars
         /\ fnmatch(Tail(name), Tail(pat))

\* any(fnmatch.fnmatch(name, pat) for pat in pats)
AnyMatch(name, pats) == \E j \in 1..Len(pats) : fnmatch(name, pats[j])

\* truth value of an Optional[list]: None and [] are false
Truthy(l) == l.given /\ Len(l.pats) > 0

NoPatterns == [given |-> FALSE, pats |-> <<>>]

\* a filter in which a matching allow pattern settles the answer
match_patterns_allow_wins(name, allow, ignore) ==
    IF Truthy(allow)
    THEN AnyMatch(name, allow.pats)
    ELSE ~(Truthy(ignore) /\ AnyMatch(name, ignore.pats))

\* _match_patterns(name, allow, ignore), lines 53-62
match_patterns(name, allow, ignore) ==
    IF Truthy(allow) /\ ~AnyMatch(name, allow.pats) THEN FALSE
    ELSE IF Truthy(ignore) /\ AnyMatch(name, ignore.pats) THEN FALSE
    ELSE TRUE

InitTotalBar(fs) ==
    LET total_bytes == SumSizes(fs, Len(fs))
    IN  [total |-> IF total_bytes > 0 THEN total_bytes ELSE None, n |-> 0]

StatSize(d) == IF d.exists THEN Len(d.data) ELSE 0

Unlink(d) == IF d.exists THEN [exists |-> FALSE, data |-> <<>>] ELSE d

\* Plan with the range end one past the last byte
PlanRangeEndOff(eb, rs) ==
    IF eb > 0 /\ rs # None
    THEN IF eb < rs
         THEN [range |-> <<eb, rs>>, exist_bytes |-> eb, unlink |-> FALSE]
         ELSE [range |-> NoRange, exist_bytes |-> 0, unlink |-> TRUE]
    ELSE IF eb > 0 /\ rs = None
         THEN [range |-> NoRange, exist_bytes |-> 0, unlink |-> TRUE]
         ELSE [range |-> NoRange, exist_bytes |-> eb, unlink |-> FALSE]

\* Plan that restarts without resetting exist_bytes
PlanKeepsOffset(eb, rs) ==
    IF eb > 0 /\ rs # None
    THEN IF eb < rs
         THEN [range |-> <<eb, rs - 1>>, exist_bytes |-> eb, unlink |-> FALSE]
         ELSE [range |-> NoRange, exist_bytes |-> eb, unlink |-> TRUE]
    ELSE IF eb > 0 /\ rs = None
         THEN [range |-> NoRange, exist_bytes |-> eb, unlink |-> TRUE]
         ELSE [range |-> NoRange, exist_bytes |-> eb, unlink |-> FALSE]

\* lines 162-177: the Range header, exist_bytes and whether dest is deleted
Plan(eb, rs) ==
    IF eb > 0 /\ rs # None
    THEN IF eb < rs
         THEN [range |-> <<eb, rs - 1>>, exist_bytes |-> eb, unlink |-> FALSE]
         ELSE [range |-> NoRange, exist_bytes |-> 0, unlink |-> TRUE]
    ELSE IF eb > 0 /\ rs = None
         THEN [range |-> NoRange, exist_bytes |-> 0, unlink |-> TRUE]
         ELSE [range |-> NoRange, exist_bytes |-> eb, unlink |-> FALSE]

\* a skip that credits nothing
SkipCreditNone(bar, rs) == bar

\* line 141: total_bar.update(remote_size) for a skipped file
SkipCredit(bar, rs) == [bar EXCEPT !.n = @ + rs]

\* a probe that counts the resolved size twice
ProbeTotalTwice(bar, rs) ==
    [bar EXCEPT !.total = (IF @ = None THEN 0 ELSE @) + rs + rs]

\* a probe that sets the total to the resolved size
ProbeTotalReplace(bar, rs) == [bar EXCEPT !.total = rs]

\* lines 155-157: a size resolved by the probe is added to the total
ProbeTotal(bar, rs) ==
    [bar EXCEPT !.total = (IF @ = None THEN 0 ELSE @) + rs]

\* a failed probe reported as size 0
ProbeSizeZero(probe, size) == IF probe = "ok" THEN size ELSE 0

\* lines 146-152 and 158-160: remote_size after the HEAD probe of a file of
\* the given size
ProbeSize(probe, size) == IF probe = "ok" THEN size ELSE None

\* any failed status restarts from zero, as a 416 does
RetryPlanRestart(range, eb) ==
    [range |-> NoRange, exist_bytes |-> 0, unlink |-> TRUE]

\* lines 219-226: what another non-success status does to the plan
RetryPlan(range, eb) ==
    [range |-> range, exist_bytes |-> eb, unlink |-> FALSE]

\* a failure that is not counted
NextRetryStuck(rc) == rc

\* lines 217, 222, 229: retry_count += 1
NextRetry(rc) == rc + 1

\* a 416 handler that forgets to reset the headers
Restart416KeepsRange(range) ==
    [range |-> range, exist_bytes |-> 0, unlink |-> TRUE]

\* lines 213-216: what a 416 response does to the plan
Restart416(range) ==
    [range |-> NoRange, exist_bytes |-> 0, unlink |-> TRUE]

\* leaving the retry loop ends the run
AbortRun == "done"

\* lines 209, 225, 233 and the loop test of line 183: where control goes
\* when the retry loop of a file is left (the next iteration of line 125)
AfterLoop == "file"

\* dest is always opened for append
OpenModeAppend(eb) == "ab"

\* line 199
OpenMode(eb) == IF eb > 0 THEN "ab" ELSE "wb"

\* line 200: open(dest, mode)
Open(d, m) ==
    IF m = "wb" THEN [exists |-> TRUE, data |-> <<>>]
    ELSE [exists |-> TRUE, data |-> d.data]

Min(a, b) == IF a < b THEN a ELSE b

\* ---- initial state ----

LocalData(n, k) == [j \in 1..k |-> IF j <= n THEN j ELSE 0]

\* the state when download_repo reaches line 125 for a listing of nf files,
\* called without patterns, so that the selection loop kept every file:
\* the listing gives a file's true size or none, and a destination is absent,
\* or a prefix of the remote file, or a longer stale file
InitWith(nf) ==
    /\ remote \in [1..nf -> 0..MaxSize]
    /\ accept_ranges \in BOOLEAN
    /\ \E listed \in [1..nf -> BOOLEAN] :
         files = [i \in 1..nf |->
                    [rfilename |-> i,
                     size |-> IF listed[i] THEN remote[i] ELSE None]]
    /\ allow_patterns = NoPatterns
    /\ ignore_patterns = NoPatterns
    /\ scan = Len(files)
    /\ selected = files
    /\ \E loc \in [1..nf -> (-1)..(MaxSize + 1)] :
         /\ \A i \in 1..nf : loc[i] <= remote[i] + 1
         /\ disk = [i \in 1..nf |->
                      IF loc[i] < 0 THEN [exists |-> FALSE, data |-> <<>>]
                      ELSE [exists |-> TRUE, data |-> LocalData(remote[i], loc[i])]]
    /\ run = 1
    /\ pc = "file"
    /\ idx = 0
    /\ remote_size = None
    /\ stat_bytes = 0
    /\ exist_bytes = 0
    /\ range_headers = NoRange
    /\ retry_count = 0
    /\ total_bar = InitTotalBar(selected)
    /\ file_bar = [total |-> None, n |-> 0]
    /\ mode = ""
    /\ body = <<>>
    /\ req = NoRange
    /\ gets = 0
    /\ errors = 0
    /\ outcome = ""
    /\ status = ""
    /\ all_ok = TRUE
    /\ prev_ok = FALSE
    /\ result = ""

Init == InitWith(NumFiles)

\* a repository that lists a single file
InitOneFile == InitWith(1)

\* paths and patterns of the filter's inputs
Names == {<<"a">>, <<"b">>, <<"a", "b">>, <<"b", "a">>}

Patterns == {<<Lit("a"), Star>>, <<Star, Lit("b")>>, <<AnyChar>>,
             <<Class({"b"}), Star>>}

\* lists of up to MaxPats patterns, none repeated
PatternLists ==
    {l \in UNION {[1..k -> Patterns] : k \in 0..MaxPats} :
        \A i, j \in 1..Len(l) : i < j => l[i] # l[j]}

PatternArgs ==
    {NoPatterns} \cup {[given |-> TRUE, pats |-> l] : l \in PatternLists}

\* the state when download_repo reaches line 97: a listing of NumFiles paths
\* (a file is as long as its path, and the listing gives its size), any
\* allow and ignore arguments, nothing selected yet
InitFilter ==
    /\ files \in [1..NumFiles ->
                    {[rfilename |-> nm, size |-> Len(nm)] : nm \in Names}]
    /\ allow_patterns \in PatternArgs
    /\ ignore_patterns \in PatternArgs
    /\ scan = 0
    /\ selected = <<>>
    /\ remote = [i \in 1..NumFiles |-> files[i].size]
    /\ accept_ranges = TRUE
    /\ disk = [i \in 1..NumFiles |-> [exists |-> FALSE, data |-> <<>>]]
    /\ run = 1
    /\ pc = "select"
    /\ idx = 0
    /\ remote_size = None
    /\ stat_bytes = 0
    /\ exist_bytes = 0
    /\ range_headers = NoRange
    /\ retry_count = 0
    /\ total_bar = InitTotalBar(selected)
    /\ file_bar = [total |-> None, n |-> 0]
    /\ mode = ""
    /\ body = <<>>
    /\ req = NoRange
    /\ gets = 0
    /\ errors = 0
    /\ outcome = ""
    /\ status = ""
    /\ all_ok = TRUE
    /\ prev_ok = FALSE
    /\ result = ""

\* ---- actions ----

\* lines 99-105: one iteration of the selection loop; total_bar stands for
\* the bar line 112 makes of total_bytes
SelectFile ==
    /\ pc = "select"
    /\ scan < Len(files)
    /\ scan' = scan + 1
    /\ LET f == files[scan + 1]
       IN  selected' = IF match_patterns(f.rfilename, allow_patterns,
                                         ignore_patterns)
                       THEN Append(selected, f)
                       ELSE selected
    /\ total_bar' = InitTotalBar(selected')
    /\ UNCHANGED <<files, allow_patterns, ignore_patterns, remote,
                   accept_ranges, disk, run, pc, idx, remote_size, stat_bytes,
                   exist_bytes, range_headers, retry_count, file_bar, mode,
                   body, req, gets, errors, outcome, status, all_ok, prev_ok,
                   result>>

\* lines 125-142 (and 162-181 when the listing gives the size): start the
\* iteration of the next selected file
BeginFile ==
    /\ pc = "file"
    /\ idx < Len(selected)
    /\ LET i == idx + 1
           f == selected[i]
           rs == IF f.size = None THEN None ELSE f.size
           eb == StatSize(disk[i])
           p == Plan(eb, rs)
       IN  /\ idx' = i
           /\ remote_size' = rs
           /\ stat_bytes' = eb
           /\ IF rs # None /\ eb = rs
              THEN \* lines 140-142: already complete, skip
                   /\ total_bar' = SkipCredit(total_bar, rs)
                   /\ status' = "Skip"
                   /\ pc' = "file"
                   /\ exist_bytes' = eb
                   /\ UNCHANGED <<disk, range_headers, retry_count>>
              ELSE IF rs = None
              THEN \* line 145: the size has to be probed first
                   /\ pc' = "head"
                   /\ status' = ""
                   /\ exist_bytes' = eb
                   /\ UNCHANGED <<disk, range_headers, retry_count, total_bar>>
              ELSE \* lines 162-181
                   /\ pc' = "get"
                   /\ status' = ""
                   /\ exist_bytes' = p.exist_bytes
                   /\ range_headers' = p.range
                   /\ disk' = IF p.unlink THEN [disk EXCEPT ![i] = Unlink(@)] ELSE disk
                   /\ retry_count' = 0
                   /\ UNCHANGED total_bar
    \* nothing was sent, opened or reported yet for this file
    /\ gets' = 0
    /\ errors' = 0
    /\ outcome' = ""
    /\ req' = NoRange
    /\ mode' = ""
    /\ file_bar' = [total |-> None, n |-> 0]
    /\ UNCHANGED <<files, allow_patterns, ignore_patterns, scan, selected,
                   remote, accept_ranges, run, body, all_ok, prev_ok, result>>

\* lines 145-181: the HEAD probe of a file whose listing has no size, then
\* the plan. probe: "ok" (Content-Length given), "nolen" (not ok, or no
\* usable Content-Length), "exc" (session.head raised)
HeadProbe(probe) ==
    /\ pc = "head"
    /\ LET rs == ProbeSize(probe, remote[idx])
           p == Plan(exist_bytes, rs)
       IN  /\ remote_size' = rs
           /\ total_bar' = IF rs # None THEN ProbeTotal(total_bar, rs)
                           ELSE total_bar
           /\ exist_bytes' = p.exist_bytes
           /\ range_headers' = p.range
           /\ disk' = IF p.unlink THEN [disk EXCEPT ![idx] = Unlink(@)] ELSE disk
    /\ retry_count' = 0
    /\ pc' = "get"
    /\ UNCHANGED <<files, allow_patterns, ignore_patterns, scan, selected,
                   remote, accept_ranges, run, idx, stat_bytes, file_bar, mode, body,
                   req, gets, errors, outcome, status, all_ok, prev_ok,
                   result>>

\* the GET of line 185 is sent with range_headers
SendGet ==
    /\ req' = range_headers
    /\ gets' = gets + 1

\* lines 222-226 and 229-234: a failed attempt that keeps the plan
RetryAsIs ==
    /\ retry_count' = NextRetry(retry_count)
    /\ IF NextRetry(retry_count) >= max_retries
       THEN /\ errors' = errors + 1
            /\ status' = "GaveUp"
            /\ all_ok' = FALSE
            /\ pc' = AfterLoop
       ELSE /\ pc' = "get"
            /\ UNCHANGED <<errors, status, all_ok>>

\* line 185 raises (connection error, timeout) before any response
GetException ==
    /\ pc = "get"
    /\ SendGet
    /\ outcome' = "exc"
    /\ RetryAsIs
    /\ UNCHANGED <<files, allow_patterns, ignore_patterns, scan, selected,
                   remote, accept_ranges, disk, run, idx, remote_size, stat_bytes,
                   exist_bytes, range_headers, total_bar, file_bar, mode, body,
                   prev_ok, result>>

\* lines 219-226: a status other than 200, 206 and 416
GetOther ==
    /\ pc = "get"
    /\ SendGet
    /\ outcome' = "http"
    /\ LET p == RetryPlan(range_headers, exist_bytes)
       IN  /\ exist_bytes' = p.exist_bytes
           /\ disk' = IF p.unlink THEN [disk EXCEPT ![idx] = Unlink(@)] ELSE disk
           /\ range_headers' = p.range
    /\ RetryAsIs
    /\ UNCHANGED <<files, allow_patterns, ignore_patterns, scan, selected,
                   remote, accept_ranges, run, idx, remote_size,
                   stat_bytes, total_bar, file_bar, mode, body, prev_ok,
                   result>>

\* lines 210-218, then the loop test of line 183
Get416 ==
    /\ pc = "get"
    /\ SendGet
    /\ outcome' = "416"
    /\ LET p == Restart416(range_headers)
       IN  /\ exist_bytes' = p.exist_bytes
           /\ disk' = IF p.unlink THEN [disk EXCEPT ![idx] = Unlink(@)] ELSE disk
           /\ range_headers' = p.range
    /\ retry_count' = NextRetry(retry_count)
    /\ IF NextRetry(retry_count) < max_retries
       THEN /\ pc' = "get"
            /\ UNCHANGED <<status, all_ok>>
       ELSE /\ pc' = AfterLoop
            /\ status' = "GaveUp"
            /\ all_ok' = FALSE
    /\ UNCHANGED <<files, allow_patterns, ignore_patterns, scan, selected,
                   remote, accept_ranges, run, idx, remote_size, stat_bytes, total_bar,
                   file_bar, mode, body, errors, prev_ok, result>>

\* the server's successful answer to a GET: the requested range (206), or,
\* when no Range was sent or the server serves no ranges, the whole file (200)
Response(i, range) ==
    IF range # NoRange /\ accept_ranges
    THEN [status_code |-> "206",
          content |-> Bytes(range[1] + 1, Min(range[2] + 1, remote[i]))]
    ELSE [status_code |-> "200", content |-> Content(i)]

\* lines 185-200: status 200 or 206; the bars are made and dest is opened
GetOK ==
    /\ pc = "get"
    /\ SendGet
    /\ outcome' = Response(idx, range_headers).status_code
    /\ file_bar' = [total |-> IF remote_size # None
                              THEN remote_size - exist_bytes ELSE None,
                    n |-> 0]
    /\ mode' = OpenMode(exist_bytes)
    /\ disk' = [disk EXCEPT ![idx] = Open(@, OpenMode(exist_bytes))]
    /\ body' = Response(idx, range_headers).content
    /\ pc' = "stream"
    /\ UNCHANGED <<files, allow_patterns, ignore_patterns, scan, selected,
                   remote, accept_ranges, run, idx, remote_size, stat_bytes,
                   exist_bytes, range_headers, retry_count, total_bar, errors,
                   status, all_ok, prev_ok, result>>

\* lines 201-206: one chunk is written and counted
Chunk ==
    /\ pc = "stream"
    /\ body # <<>>
    /\ LET len == Min(chunk_size, Len(body))
           chunk == SubSeq(body, 1, len)
       IN  /\ disk' = [disk EXCEPT ![idx].data = @ \o chunk]
           /\ file_bar' = [file_bar EXCEPT !.n = @ + len]
           /\ total_bar' = [total_bar EXCEPT !.n = @ + len]
           /\ body' = SubSeq(body, len + 1, Len(body))
    /\ UNCHANGED <<files, allow_patterns, ignore_patterns, scan, selected,
                   remote, accept_ranges, run, pc, idx, remote_size, stat_bytes,
                   exist_bytes, range_headers, retry_count, mode, req, gets,
                   errors, outcome, status, all_ok, prev_ok, result>>

\* lines 208-209: the body is exhausted, the file is done
StreamEnd ==
    /\ pc = "stream"
    /\ body = <<>>
    /\ status' = "Succeeded"
    /\ pc' = AfterLoop
    /\ UNCHANGED <<files, allow_patterns, ignore_patterns, scan, selected,
                   remote, accept_ranges, disk, run, idx, remote_size, stat_bytes,
                   exist_bytes, range_headers, retry_count, total_bar, file_bar,
                   mode, body, req, gets, errors, outcome, all_ok, prev_ok,
                   result>>

\* lines 201 and 228-234: iter_content raises before the body is complete
StreamError ==
    /\ pc = "stream"
    /\ body # <<>>
    /\ body' = <<>>
    /\ outcome' = "exc"
    /\ RetryAsIs
    /\ UNCHANGED <<files, allow_patterns, ignore_patterns, scan, selected,
                   remote, accept_ranges, disk, run, idx, remote_size, stat_bytes,
                   exist_bytes, range_headers, total_bar, file_bar, mode, req,
                   gets, prev_ok, result>>

\* lines 236-238
Finish ==
    /\ pc = "file"
    /\ idx = Len(selected)
    /\ pc' = "done"
    /\ result' = "base_dir"
    /\ UNCHANGED <<files, allow_patterns, ignore_patterns, scan, selected,
                   remote, accept_ranges, disk, run, idx, remote_size, stat_bytes,
                   exist_bytes, range_headers, retry_count, total_bar, file_bar,
                   mode, body, req, gets, errors, outcome, status, all_ok,
                   prev_ok>>

\* download_repo is called again with the same arguments (lines 91-123);
\* the remote is unchanged and the disk is what the last run left
Rerun ==
    /\ pc = "done"
    /\ run < MaxRuns
    /\ run' = run + 1
    /\ prev_ok' = all_ok
    /\ all_ok' = TRUE
    /\ pc' = "file"
    /\ idx' = 0
    /\ remote_size' = None
    /\ stat_bytes' = 0
    /\ exist_bytes' = 0
    /\ range_headers' = NoRange
    /\ retry_count' = 0
    /\ total_bar' = InitTotalBar(selected)
    /\ file_bar' = [total |-> None, n |-> 0]
    /\ mode' = ""
    /\ body' = <<>>
    /\ req' = NoRange
    /\ gets' = 0
    /\ errors' = 0
    /\ outcome' = ""
    /\ status' = ""
    /\ result' = ""
    /\ UNCHANGED <<files, allow_patterns, ignore_patterns, scan, selected,
                   remote, accept_ranges, disk>>

Next ==
    \/ BeginFile
    \/ \E probe \in {"ok", "nolen", "exc"} : HeadProbe(probe)
    \/ GetException
    \/ GetOther
    \/ Get416
    \/ GetOK
    \/ Chunk
    \/ StreamEnd
    \/ StreamError
    \/ Finish
    \/ Rerun

Spec == Init /\ [][Next]_vars

\* download_repo on a repository of one file
OneFileSpec == InitOneFile /\ [][Next]_vars

NextFilter == SelectFile

\* the selection loop of download_repo under every allow / ignore argument
FilterSpec == InitFilter /\ [][NextFilter]_vars

\* ---- properties ----

InLoop == pc \in {"get", "stream"}

\* d is a prefix of the remote content of file i
IsPrefix(d, i) ==
    /\ Len(d) <= remote[i]
    /\ \A j \in 1..Len(d) : d[j] = j

RECURSIVE SumDisk(_)
SumDisk(k) == IF k = 0 THEN 0 ELSE SumDisk(k - 1) + StatSize(disk[k])

\* C1: with a server that serves the requested ranges, in the first run
\* (every local file starts as a prefix of the remote file, or is longer and
\* deleted before the loop), for a file whose remote
\* size is known, in every state of its attempt loop the destination is no
\* longer than the remote size and its content is a prefix of the remote file.
C1_ResumeSafe ==
    (accept_ranges /\ run = 1 /\ InLoop /\ remote_size # None)
        => /\ StatSize(disk[idx]) <= remote_size
           /\ IsPrefix(disk[idx].data, idx)

\* C2: a file whose local length is > 0 and equals its known remote size
\* (from the listing or from the HEAD probe) is skipped: no GET is sent and
\* the local file is neither deleted nor rewritten.
C2_SkipComplete ==
    (idx >= 1 /\ pc # "head" /\ remote_size # None /\ stat_bytes > 0
       /\ stat_bytes = remote_size)
        => /\ status = "Skip"
           /\ gets = 0
           /\ disk[idx].exists
           /\ Len(disk[idx].data) = stat_bytes

\* C3: a 416 answer with retry budget left keeps the file's loop going: it
\* deletes the local file, costs exactly one retry, and from then on every
\* attempt of that file is planned without a Range header and from byte zero;
\* an attempt so planned sends no Range header and opens dest truncated.
C3_416Restarts ==
    /\ [][(gets' = gets + 1 /\ outcome' = "416"
            /\ retry_count + 1 < max_retries)
          => /\ pc' = "get"
             /\ idx' = idx
             /\ ~disk'[idx].exists
             /\ retry_count' = retry_count + 1
             /\ range_headers' = NoRange
             /\ exist_bytes' = 0]_vars
    /\ [][(InLoop /\ pc' \in {"get", "stream"} /\ range_headers = NoRange
            /\ exist_bytes = 0)
          => /\ range_headers' = NoRange
             /\ exist_bytes' = 0
             /\ (gets' = gets + 1 => req' = NoRange)
             /\ (gets' = gets + 1 /\ pc' = "stream"
                   => mode' = "wb" /\ disk'[idx].data = <<>>)]_vars

\* C3 witness: a Range request was answered 416 with budget left, and the
\* retry is about to be sent without Range.
C3_Witness ==
    /\ pc = "get"
    /\ outcome = "416"
    /\ retry_count = 1
    /\ req # NoRange
    /\ range_headers = NoRange
    /\ ~disk[idx].exists

\* C4: with known remote size n and local length k, 0 < k < n, the first GET
\* carries Range: bytes=k-(n-1) and dest is opened for append; when that
\* attempt completes having delivered exactly n-k bytes, dest has n bytes.
C4_Resume ==
    (InLoop /\ remote_size # None /\ 0 < stat_bytes /\ stat_bytes < remote_size)
        => /\ (gets = 0 => range_headers = <<stat_bytes, remote_size - 1>>)
           /\ (gets = 1 => req = <<stat_bytes, remote_size - 1>>)
           /\ (gets = 1 /\ pc = "stream" => mode = "ab")
           /\ (gets = 1 /\ pc = "stream" /\ body = <<>>
                 /\ file_bar.n = remote_size - stat_bytes
                 => Len(disk[idx].data) = remote_size)

\* C4 witness: the first attempt of a resume has delivered the n-k bytes.
C4_Witness ==
    /\ pc = "stream"
    /\ gets = 1
    /\ body = <<>>
    /\ remote_size # None
    /\ 0 < stat_bytes
    /\ stat_bytes < remote_size
    /\ file_bar.n = remote_size - stat_bytes
    /\ req = <<stat_bytes, remote_size - 1>>

\* C5: with local length k > 0 and either k > known remote size or the
\* remote size unknown after the probe, dest is deleted before the first GET,
\* no GET carries a Range header, and during and after a successful attempt
\* dest holds exactly the bytes that attempt delivered.
C5_Restart ==
    (InLoop /\ stat_bytes > 0
       /\ (remote_size = None \/ stat_bytes > remote_size))
        => /\ (gets = 0 => ~disk[idx].exists /\ range_headers = NoRange)
           /\ (gets >= 1 => req = NoRange)
           /\ (pc = "stream" => /\ mode = "wb"
                                /\ Len(disk[idx].data) = file_bar.n)

\* C5 witness: a restart of a stale local file has completed an attempt
\* that delivered some bytes, after an earlier failed attempt.
C5_Witness ==
    /\ pc = "stream"
    /\ body = <<>>
    /\ stat_bytes > 0
    /\ remote_size # None
    /\ stat_bytes > remote_size
    /\ file_bar.n > 0
    /\ retry_count > 0

\* C6: the third failed attempt of a file ends that file's loop in GaveUp
\* and nothing else; after a give-up the orchestrator starts the next file,
\* or, after the last file, returns the destination root; download_repo
\* returns only after the last file.
C6_GiveUpIsLocal ==
    /\ [][(retry_count' = max_retries /\ retry_count < max_retries)
          => /\ status' = "GaveUp"
             /\ pc' = "file"
             /\ idx' = idx /\ run' = run]_vars
    /\ [][(pc = "file" /\ status = "GaveUp")
          => \/ idx < Len(selected) /\ idx' = idx + 1
                  /\ pc' \in {"file", "head", "get"}
             \/ idx = Len(selected) /\ pc' = "done"]_vars
    /\ [][pc' = "done"
          => /\ idx' = Len(selected)
             /\ result' = "base_dir"]_vars

\* C6 witness: the run returned although a file gave up, and the file after
\* it was downloaded.
C6_Witness ==
    /\ pc = "done"
    /\ run = 1
    /\ ~all_ok
    /\ status = "Succeeded"
    /\ result = "base_dir"

AllListed == \A i \in 1..Len(files) : files[i].size # None

\* C7: at the end of a run in which no file gave up, a known aggregate total
\* is at least the aggregate completed-bytes counter (stated here for a
\* listing that gives every size and a server that serves ranges).
C7_TotalCoversCompleted ==
    (pc = "done" /\ all_ok /\ total_bar.total # None /\ AllListed
       /\ accept_ranges)
        => total_bar.n <= total_bar.total

\* C8: at the end of a run in which no file gave up, the aggregate
\* completed-bytes counter equals the sum of the on-disk lengths of all
\* selected files.
C8_CompletedIsDiskSum ==
    (pc = "done" /\ all_ok) => total_bar.n = SumDisk(Len(selected))

\* C9: in a run that follows a run in which no file gave up, no GET is sent
\* and no byte is transferred.
C9_SecondRunIdle ==
    (run >= 2 /\ prev_ok) => (gets = 0 /\ pc # "stream")

\* C10: a file whose destination is absent or empty is never skipped, its
\* GETs carry no Range header and open dest truncated, and after a run in
\* which no file gave up every selected path exists on disk.
C10_NoLocalBytesRestart ==
    /\ (idx >= 1 /\ pc # "head" /\ stat_bytes = 0)
         => /\ status # "Skip"
            /\ (gets >= 1 => req = NoRange)
            /\ (pc = "stream" => mode = "wb")
    /\ (pc = "done" /\ all_ok) => \A i \in 1..Len(selected) : disk[i].exists

RECURSIVE SumRemote(_)
SumRemote(k) == IF k = 0 THEN 0 ELSE SumRemote(k - 1) + remote[k]

TotalValue(bar) == IF bar.total = None THEN 0 ELSE bar.total

\* C11: the aggregate total starts as the sum of the listing sizes of the
\* selected files (a file without a listing size counts 0), it changes only
\* when a HEAD probe resolves the size of the current file, by exactly that
\* size, a file is probed only when the loop enters it, and the total never
\* exceeds the sum of the true remote sizes of the selected files.
C11_TotalLowerBound ==
    /\ TotalValue(total_bar) = SumSizes(selected, Len(selected))
    /\ [][IF run' # run
          THEN TotalValue(total_bar') = SumSizes(selected, Len(selected))
          ELSE IF pc = "head" /\ remote_size' # None
          THEN /\ remote_size' = remote[idx]
               /\ TotalValue(total_bar') = TotalValue(total_bar) + remote[idx]
          ELSE total_bar'.total = total_bar.total]_vars
    /\ [][pc' = "head" => pc = "file" /\ idx' = idx + 1]_vars
    /\ [][TotalValue(total_bar') <= SumRemote(Len(selected))]_vars

\* the second of two files had no listing size, its probe resolved a size
\* above zero and the total is the first file's size plus the resolved one
C11_Witness ==
    /\ pc = "get" /\ idx = 2 /\ gets = 0
    /\ selected[1].size # None /\ selected[1].size > 0
    /\ selected[2].size = None /\ remote_size # None /\ remote_size > 0
    /\ total_bar.total = selected[1].size + remote_size

\* C12: a HEAD probe is made only for a file whose listing gave no size, on
\* entering the file and so at most once per file; whatever the probe's
\* outcome the loop goes on to the GET of the same file and gives up nothing;
\* a failed probe leaves remote_size unknown and the progress bar as it was,
\* and the file is then requested without a Range header.
C12_ProbeFailureTolerated ==
    /\ [][pc' = "head"
            => pc = "file" /\ idx' = idx + 1 /\ selected[idx'].size = None]_vars
    /\ [][pc = "head"
            => /\ pc' = "get" /\ idx' = idx /\ run' = run
               /\ all_ok' = all_ok /\ errors' = errors /\ status' = ""
               /\ \/ /\ remote_size' = remote[idx]
                     /\ total_bar' = ProbeTotal(total_bar, remote[idx])
                  \/ /\ remote_size' = None
                     /\ total_bar' = total_bar]_vars
    /\ [][(pc = "get" /\ remote_size = None)
            => gets' = gets + 1 /\ req' = NoRange]_vars

\* the probe of a file without listing size failed and the file was then
\* streamed to the end
C12_Witness ==
    /\ pc = "stream" /\ selected[idx].size = None /\ remote_size = None
    /\ gets = 1 /\ body = <<>> /\ remote[idx] > 0
    /\ disk[idx].data = Content(idx)

\* the claim's rule: the allow stage passes when allow is absent or empty or
\* some allow pattern matches, the ignore stage passes when ignore is absent
\* or empty or no ignore pattern matches, and a path is selected iff both pass
AllowStage(name) ==
    \/ ~allow_patterns.given
    \/ allow_patterns.pats = <<>>
    \/ \E j \in 1..Len(allow_patterns.pats) :
         fnmatch(name, allow_patterns.pats[j])

IgnoreStage(name) ==
    \/ ~ignore_patterns.given
    \/ ignore_patterns.pats = <<>>
    \/ \A j \in 1..Len(ignore_patterns.pats) :
         ~fnmatch(name, ignore_patterns.pats[j])

Included(f) == AllowStage(f.rfilename) /\ IgnoreStage(f.rfilename)

\* C13: _match_patterns returns true for a path iff the allow stage and the
\* ignore stage both pass (so ignore wins over allow), and the files the
\* selection loop hands to the download loop are exactly, and in listing
\* order, the listing entries seen so far for which that rule holds.
C13_FilterSelects ==
    /\ \A nm \in Names :
         match_patterns(nm, allow_patterns, ignore_patterns)
           <=> (AllowStage(nm) /\ IgnoreStage(nm))
    /\ selected = SelectSeq(SubSeq(files, 1, scan), Included)

\* the whole listing was scanned; the first path matched an allow pattern
\* and an ignore pattern and was dropped, the second matched only an allow
\* pattern and is the one selected file
C13_Witness ==
    /\ pc = "select" /\ scan = Len(files) /\ scan = 2
    /\ Truthy(allow_patterns) /\ Truthy(ignore_patterns)
    /\ AnyMatch(files[1].rfilename, allow_patterns.pats)
    /\ AnyMatch(files[1].rfilename, ignore_patterns.pats)
    /\ AnyMatch(files[2].rfilename, allow_patterns.pats)
    /\ ~AnyMatch(files[2].rfilename, ignore_patterns.pats)
    /\ selected = <<files[2]>>

\* C14: whenever the loop is about to send a GET that carries a Range header,
\* on the first attempt and on every retry, the start of the range is the
\* current length of the destination file on disk (stated here for a server
\* that serves the requested ranges).
C14_RangeStartIsDiskLength ==
    (accept_ranges /\ pc = "get" /\ range_headers # NoRange)
        => range_headers[1] = StatSize(disk[idx])

\* C15: an attempt answered with a non-success status other than 416 leaves
\* every destination file as it was and raises retry_count by exactly one;
\* if the budget is not used up the loop goes on to another attempt with the
\* same range_headers and exist_bytes, and the GET sent after such a failure
\* carries the same Range header (or the same absence of one) as the failed
\* GET.
C15_RetryAsIs ==
    /\ [][(gets' = gets + 1 /\ outcome' = "http")
            => /\ disk' = disk
               /\ retry_count' = retry_count + 1
               /\ range_headers' = range_headers
               /\ exist_bytes' = exist_bytes
               /\ req' = range_headers
               /\ (retry_count + 1 < max_retries => pc' = "get" /\ idx' = idx)
               /\ (retry_count + 1 >= max_retries => status' = "GaveUp")]_vars
    /\ [][(pc = "get" /\ outcome = "http" /\ gets' = gets + 1)
            => req' = req]_vars

\* a resumed file whose first GET, sent with a Range header, got another
\* status: the partial file is intact and the same header waits for the retry
C15_Witness ==
    /\ pc = "get" /\ outcome = "http" /\ retry_count = 1 /\ gets = 1
    /\ req # NoRange /\ range_headers = req
    /\ disk[idx].exists /\ Len(disk[idx].data) = exist_bytes

\* download_repo runs in one thread and every request is made with a timeout
\* (lines 147, 185), so a step that can be taken is taken
FairOneFileSpec == OneFileSpec /\ WF_vars(Next)

Terminal == status \in {"Succeeded", "GaveUp"}

\* C16: every failed attempt (416, another non-success status, an exception
\* while requesting or while streaming) raises retry_count by exactly one and
\* an attempt answered 200 / 206 leaves it alone until its stream fails; a GET
\* is sent only while retry_count is below max_retries and never more than
\* max_retries times for a file; once a file is Succeeded or GaveUp nothing
\* of its iteration changes any more; every file that enters the attempt loop
\* reaches Succeeded or GaveUp, and every run reaches its end.
C16_BoundedRetry ==
    /\ [][gets' = gets + 1
            => /\ retry_count < max_retries
               /\ gets' <= max_retries
               /\ IF outcome' \in {"200", "206"}
                  THEN retry_count' = retry_count /\ pc' = "stream"
                  ELSE retry_count' = retry_count + 1]_vars
    /\ [][(pc = "stream" /\ pc' # "stream")
            => \/ status' = "Succeeded" /\ retry_count' = retry_count
               \/ outcome' = "exc" /\ retry_count' = retry_count + 1]_vars
    /\ [][(InLoop /\ ~(pc' \in {"get", "stream"}))
            => status' \in {"Succeeded", "GaveUp"}]_vars
    /\ [][(Terminal /\ idx' = idx /\ run' = run)
            => /\ status' = status /\ gets' = gets
               /\ retry_count' = retry_count /\ disk' = disk]_vars
    /\ InLoop ~> Terminal
    /\ <>[](pc = "done")

\* a file gave up after three GETs, the last of which failed while streaming
C16_Witness ==
    /\ status = "GaveUp" /\ gets = max_retries /\ retry_count = max_retries
    /\ outcome = "exc" /\ mode # "" /\ pc = "file"

\* C17: when the iteration of a file is over, the "[ERROR] Max retries
\* exceeded" line was written exactly once for this file if it gave up,
\* whatever its last attempt's outcome was, and not at all if it succeeded
\* or was skipped.
C17_GiveUpReported ==
    (idx >= 1 /\ pc \in {"file", "done"})
        => /\ (status = "GaveUp" => errors = 1)
           /\ (status \in {"Succeeded", "Skip"} => errors = 0)

\* C18: the step that skips a file (its local length equals its known remote
\* size n) adds exactly n to the completed-bytes counter and leaves the
\* total, the disk and the request count alone, and no later step of the
\* same file's iteration changes the progress bar.
C18_SkipCredits ==
    /\ [][(status' = "Skip" /\ idx' = idx + 1)
            => /\ remote_size' # None
               /\ remote_size' = StatSize(disk[idx'])
               /\ total_bar'.n = total_bar.n + remote_size'
               /\ total_bar'.total = total_bar.total
               /\ disk' = disk /\ gets' = 0 /\ pc' = "file"]_vars
    /\ [][(status = "Skip" /\ idx' = idx /\ run' = run)
            => total_bar' = total_bar]_vars

\* a complete file of 2 bytes or more was skipped and credited, and the run
\* then came to its end
C18_Witness ==
    /\ pc = "done" /\ status = "Skip" /\ idx = 1 /\ run = 1
    /\ remote_size >= 2 /\ total_bar.n = remote_size
    /\ total_bar.total = remote_size

\* C19: in every step of a run (skip, probe, request, chunk, failure, retry,
\* end of a file) the completed-bytes counter does not decrease, and a total
\* that is known stays known and does not decrease.
C19_Monotonic ==
    [][run' = run
         => /\ total_bar'.n >= total_bar.n
            /\ (total_bar.total # None
                  => /\ total_bar'.total # None
                     /\ total_bar'.total >= total_bar.total)]_vars

\* the total was known from the first file and grew by the probed size of the
\* second, whose first attempt failed after part of the body was streamed
C19_Witness ==
    /\ pc = "get" /\ idx = 2 /\ gets = 1 /\ outcome = "exc"
    /\ file_bar.n >= 1
    /\ selected[1].size # None /\ selected[1].size > 0
    /\ selected[2].size = None /\ remote_size # None /\ remote_size > 0
    /\ total_bar.total = selected[1].size + remote_size
    /\ total_bar.n >= 1

\* C20: throughout the attempt loop of a file the Range header the next GET
\* will carry is set iff exist_bytes > 0, and a header that is set starts at
\* 1 or later and not after its end; while a response is streamed, the GET
\* that fetched it carried that header and the destination was opened in
\* append mode iff exist_bytes > 0, and in truncate mode iff the GET carried
\* no Range header.
C20_RangeIffAppend ==
    /\ InLoop
         => /\ (range_headers # NoRange <=> exist_bytes > 0)
            /\ (range_headers # NoRange
                  => /\ range_headers[1] >= 1
                     /\ range_headers[1] <= range_headers[2]
                     /\ range_headers[1] = exist_bytes)
    /\ pc = "stream"
         => /\ req = range_headers
            /\ (mode = "ab" <=> exist_bytes > 0)
            /\ (mode = "wb" <=> req = NoRange)
            /\ mode \in {"ab", "wb"}

\* a file planned as a resume whose Range request was answered 416 streams
\* its restart: no Range header, exist_bytes 0, destination truncated
C20_Witness ==
    /\ pc = "stream" /\ gets = 2 /\ retry_count = 1
    /\ req = NoRange /\ mode = "wb" /\ exist_bytes = 0
    /\ stat_bytes > 0 /\ remote_size # None /\ stat_bytes < remote_size

====
